---- MODULE Spec2Model ----
(***************************************************************************)
(* Model of juniper_relay's RelayConnection: the pagination request        *)
(* pipeline of RelayConnection::new (decode cursors, validate first/last,  *)
(* invoke the loader once, window the returned Vec, assemble edges and     *)
(* page info) and of RelayConnection::empty.                               *)
(*                                                                         *)
(* The node type is instantiated with an unsigned integer cursor whose     *)
(* FromStr/ToString are decimal parsing and rendering; strings are         *)
(* sequences of one-character strings.                                     *)
(***************************************************************************)
EXTENDS Integers, Sequences, FiniteSets, TLC

\* ---------------------------------------------------------------- bounds
\* Longest Vec the loader returns.
MaxLen == 3
\* Largest small value of first/last offered by a caller (besides i32::MAX).
MaxArg == 3
\* Longest Vec of a run that is kept for comparison with a second run.
PairMaxLen == 2

\* ------------------------------------------------------- integer widths
\* i32::MAX, the largest value of the `first`/`last` arguments (Option<i32>).
I32Max == 2147483647

\* An i64 is held as four 16-bit limbs <<l3, l2, l1, l0>>, most significant
\* first, in two's complement: l3 is signed (-2^15 .. 2^15 - 1), the others
\* are 0 .. 2^16 - 1, and the value is ((l3 * Limb + l2) * Limb + l1) * Limb + l0.
Limb == 2^16
HalfLimb == 2^15

\* i64::from(i32) (`Into::into`, line 82): sign extension.
I64FromI32(v) ==
    <<IF v < 0 THEN -1 ELSE 0,
      IF v < 0 THEN Limb - 1 ELSE 0,
      (v \div Limb) % Limb,
      v % Limb>>

\* The sum computed at the width of the i32 argument instead: it wraps at
\* 32 bits and is then sign-extended.
Add32(a, b) ==
    LET s0 == a[4] + b[4]
        s1 == (a[3] + b[3] + (s0 \div Limb)) % Limb
        neg == s1 >= HalfLimb
    IN  <<IF neg THEN -1 ELSE 0, IF neg THEN Limb - 1 ELSE 0, s1, s0 % Limb>>

\* i64 addition, wrapping at 64 bits (line 86, `l + 1`).
Add64(a, b) ==
    LET s0 == a[4] + b[4]
        s1 == a[3] + b[3] + (s0 \div Limb)
        s2 == a[2] + b[2] + (s1 \div Limb)
        s3 == a[1] + b[1] + (s2 \div Limb)
    IN  <<((s3 + HalfLimb) % Limb) - HalfLimb, s2 % Limb, s1 % Limb, s0 % Limb>>

\* a < b on i64 values.
Less64(a, b) ==
    \E i \in 1..4 : a[i] < b[i] /\ \A j \in 1..(i - 1) : a[j] = b[j]

\* ------------------------------------------------------ Option / Result
None == [some |-> FALSE]
Some(x) == [some |-> TRUE, v |-> x]
Ok(x) == [ok |-> TRUE, val |-> x]
Err(e) == [ok |-> FALSE, err |-> e]

Min(a, b) == IF a < b THEN a ELSE b
Max(a, b) == IF a > b THEN a ELSE b

\* ------------------------------------------------------------- cursors
DigitChars == <<"0", "1", "2", "3", "4", "5", "6", "7", "8", "9">>

IsDigit(c) == \E i \in 1..10 : DigitChars[i] = c
DigitVal(c) == (CHOOSE i \in 1..10 : DigitChars[i] = c) - 1

RECURSIVE DigitsValue(_)
DigitsValue(s) ==
    IF Len(s) = 0 THEN 0
    ELSE DigitsValue(SubSeq(s, 1, Len(s) - 1)) * 10 + DigitVal(s[Len(s)])

\* <N::Cursor as FromStr>::from_str for the unsigned integer cursor.
ParseCursor(s) ==
    IF Len(s) = 0 THEN Err("cannot parse integer from empty string")
    ELSE IF \A i \in 1..Len(s) : IsDigit(s[i]) THEN Ok(DigitsValue(s))
    ELSE Err("invalid digit found in string")

\* <N::Cursor as ToString>::to_string for the unsigned integer cursor.
RECURSIVE CursorToString(_)
CursorToString(c) ==
    IF c < 10 THEN <<DigitChars[c + 1]>>
    ELSE CursorToString(c \div 10) \o <<DigitChars[(c % 10) + 1]>>

\* Cursors carried by the nodes of the backing store.
NodeCursors == {7, 12}
Nodes == {[cursor |-> c] : c \in NodeCursors}

\* RelayConnectionNode::cursor
cursor(node) == node.cursor

\* --------------------------------------------------------------- inputs
FirstInputs == {None} \cup {Some(i) : i \in (-1..MaxArg) \cup {I32Max}}
CursorInputs == {None, Some(<<"7">>), Some(<<"0", "1", "2">>), Some(<<"x">>)}

RECURSIVE SeqsUpTo(_, _)
SeqsUpTo(S, n) ==
    IF n = 0 THEN {<<>>}
    ELSE LET shorter == SeqsUpTo(S, n - 1)
         IN  shorter \cup {Append(s, x) : s \in {t \in shorter : Len(t) = n - 1}, x \in S}

LoadErrors == {"db unavailable", "row decode failed"}

\* ------------------------------------------------------------ the code
leq_zero(val) ==
    IF val < 0 THEN Err("Pagination argument must be positive") ELSE Ok(val)

\* Option<String>.map(|s| s.parse()).transpose()
ParseOpt(o) ==
    IF ~o.some THEN Ok(None)
    ELSE LET r == ParseCursor(o.v)
         IN  IF r.ok THEN Ok(Some(r.val)) ELSE r

\* A rejected value dropped as if the argument were absent
\* (`.and_then(|v| leq_zero(v).ok())`).
CheckOptLenient(o) ==
    IF ~o.some THEN Ok(None)
    ELSE LET r == leq_zero(o.v)
         IN  IF r.ok THEN Ok(Some(r.val)) ELSE Ok(None)

\* Option<i32>.map(Into::into).map(leq_zero).transpose()
CheckOpt(o) ==
    IF ~o.some THEN Ok(None)
    ELSE LET r == leq_zero(o.v)
         IN  IF r.ok THEN Ok(Some(r.val)) ELSE r

\* first.map(|l| l + 1): the sum is an i64 and may exceed i32::MAX.
LimitHint(f) == IF f.some THEN Some(Add64(I64FromI32(f.v), I64FromI32(1))) ELSE None

\* usize -> i64 (edges.len().try_into()): fails above i64::MAX only, and
\* every length a Vec of the model has is far below it.
LenToI64(n) == IF n >= 0 THEN Ok(n) ELSE Err("out of range integral type conversion attempted")

\* i64 -> usize (first.try_into(), skip.try_into())
ToUsize(v) == IF v < 0 THEN Err("out of range integral type conversion attempted") ELSE Ok(v)

\* `>=` in place of `>`.
has_previous_page_geq(l, edges_len) == IF l.some THEN edges_len >= l.v ELSE FALSE

has_previous_page(l, edges_len) == IF l.some THEN edges_len > l.v ELSE FALSE

\* `>=` in place of `>`.
has_next_page_geq(f, edges_len) == IF f.some THEN edges_len >= f.v ELSE FALSE

has_next_page(f, edges_len) == IF f.some THEN edges_len > f.v ELSE FALSE

unwrap_or(o, d) == IF o.some THEN o.v ELSE d

\* The requested count taken for the count actually available.
len_after_take_requested(edges_len, f) == f

len_after_take(edges_len, f) == Min(edges_len, f)

\* The operands of the subtraction swapped.
skip_swapped(taken, l) == Max(0, l - taken)

skip(taken, l) == Max(0, taken - l)

\* The `.take(..)` adapter left out.
TakeAll(s, n) == s

\* Iterator::take and Iterator::skip over a Vec
Take(s, n) == SubSeq(s, 1, Min(n, Len(s)))
Skip(s, n) == SubSeq(s, Min(n, Len(s)) + 1, Len(s))

\* .map(|node| RelayConnectionEdge { cursor: node.cursor().to_string(), node })
MakeEdge(node) == [node |-> node, cursor |-> CursorToString(cursor(node))]
MapEdges(s) == [i \in 1..Len(s) |-> MakeEdge(s[i])]

\* `edges.first()` used for the end cursor too.
end_cursor_of_first(edges) == IF Len(edges) = 0 THEN None ELSE Some(edges[1].cursor)

\* edges.first() / edges.last() mapped to the edge's cursor
start_cursor(edges) == IF Len(edges) = 0 THEN None ELSE Some(edges[1].cursor)
end_cursor(edges) == IF Len(edges) = 0 THEN None ELSE Some(edges[Len(edges)].cursor)

\* Lines 88-125 of RelayConnection::new, after the loader returned `loaded`.
Window(f, l, loaded) ==
    LET n == LenToI64(Len(loaded)) IN
    IF ~n.ok THEN n ELSE
    LET edges_len == n.val
        hpp == has_previous_page(l, edges_len)
        hnp == has_next_page(f, edges_len)
        f2 == unwrap_or(f, edges_len)
        l2 == unwrap_or(l, edges_len)
        taken == len_after_take(edges_len, f2)
        sk == skip(taken, l2)
        tk == ToUsize(f2)
        su == ToUsize(sk)
    IN  IF ~tk.ok THEN tk
        ELSE IF ~su.ok THEN su
        ELSE LET edges == MapEdges(Skip(Take(loaded, tk.val), su.val))
             IN  Ok([edges |-> edges,
                     page_info |-> [has_previous_page |-> hpp,
                                    has_next_page |-> hnp,
                                    start_cursor |-> start_cursor(edges),
                                    end_cursor |-> end_cursor(edges)]])

\* RelayConnection::empty
empty ==
    [edges |-> <<>>,
     page_info |-> [has_previous_page |-> FALSE,
                    has_next_page |-> FALSE,
                    start_cursor |-> None,
                    end_cursor |-> None]]

\* --------------------------------------------------------------- state
VARIABLES
    pc,        \* position of the request: idle, parse_after, parse_before,
               \* check_first, check_last, load, window, done
    via,       \* which constructor is running: "none", "new", "empty"
    args,      \* the raw arguments of new: first, after, last, before
    after,     \* decoded after cursor  (line 79)
    before,    \* decoded before cursor (line 80)
    first,     \* validated first as i64 (line 82)
    last,      \* validated last as i64  (line 83)
    calls,     \* the loader invocations so far, each with its arguments
    loaded,    \* what the loader returned: None, or Some(FieldResult<Vec<N>>)
    result,    \* what the constructor returned: None, or Some(Ok/Err)
    prev       \* an earlier finished run kept for comparison, or None

vars == <<pc, via, args, after, before, first, last, calls, loaded, result, prev>>

NoArgs == [first |-> None, after |-> None, last |-> None, before |-> None]

Init ==
    /\ pc = "idle"
    /\ via = "none"
    /\ args = NoArgs
    /\ after = None
    /\ before = None
    /\ first = None
    /\ last = None
    /\ calls = <<>>
    /\ loaded = None
    /\ result = None
    /\ prev = None

\* `?` on an Err: the function returns it.
Fail(r) ==
    /\ result' = Some(Err(r.err))
    /\ pc' = "done"

\* A caller invokes RelayConnection::new(first, after, last, before, load).
Call ==
    /\ pc = "idle"
    /\ prev = None
    /\ \E f \in FirstInputs, l \in FirstInputs, a \in CursorInputs, b \in CursorInputs :
          args' = [first |-> f, after |-> a, last |-> l, before |-> b]
    /\ pc' = "parse_after"
    /\ via' = "new"
    /\ UNCHANGED <<after, before, first, last, calls, loaded, result, prev>>

\* line 79
ParseAfter ==
    /\ pc = "parse_after"
    /\ LET r == ParseOpt(args.after)
       IN  IF r.ok
           THEN after' = r.val /\ pc' = "parse_before" /\ UNCHANGED result
           ELSE Fail(r) /\ UNCHANGED after
    /\ UNCHANGED <<via, args, before, first, last, calls, loaded, prev>>

\* line 80
ParseBefore ==
    /\ pc = "parse_before"
    /\ LET r == ParseOpt(args.before)
       IN  IF r.ok
           THEN before' = r.val /\ pc' = "check_first" /\ UNCHANGED result
           ELSE Fail(r) /\ UNCHANGED before
    /\ UNCHANGED <<via, args, after, first, last, calls, loaded, prev>>

\* line 82
CheckFirst ==
    /\ pc = "check_first"
    /\ LET r == CheckOpt(args.first)
       IN  IF r.ok
           THEN first' = r.val /\ pc' = "check_last" /\ UNCHANGED result
           ELSE Fail(r) /\ UNCHANGED first
    /\ UNCHANGED <<via, args, after, before, last, calls, loaded, prev>>

\* line 83
CheckLast ==
    /\ pc = "check_last"
    /\ LET r == CheckOpt(args.last)
       IN  IF r.ok
           THEN last' = r.val /\ pc' = "load" /\ UNCHANGED result
           ELSE Fail(r) /\ UNCHANGED last
    /\ UNCHANGED <<via, args, after, before, first, calls, loaded, prev>>

\* The loader is free in what it returns; a second run kept for comparison
\* is offered the shorter Vecs only.
LoadBound == IF prev.some THEN PairMaxLen ELSE MaxLen

\* The loader called a second time after a failure.
LoadRetry ==
    /\ pc = "load"
    /\ LET c == [after |-> after, before |-> before, limit |-> LimitHint(first)]
       IN  \/ \E s \in SeqsUpTo(Nodes, LoadBound) :
                /\ calls' = Append(calls, c)
                /\ loaded' = Some(Ok(s))
                /\ pc' = "window"
                /\ UNCHANGED result
           \/ \E e \in LoadErrors :
                /\ calls' = Append(Append(calls, c), c)
                /\ loaded' = Some(Err(e))
                /\ Fail(Err(e))
    /\ UNCHANGED <<via, args, after, before, first, last, prev>>

\* lines 86-87: the loader is called with (after, before, limit) and either
\* returns a Vec of nodes or fails.
Load ==
    /\ pc = "load"
    /\ calls' = Append(calls, [after |-> after, before |-> before, limit |-> LimitHint(first)])
    /\ \/ \E s \in SeqsUpTo(Nodes, LoadBound) :
             /\ loaded' = Some(Ok(s))
             /\ pc' = "window"
             /\ UNCHANGED result
       \/ \E e \in LoadErrors :
             /\ loaded' = Some(Err(e))
             /\ Fail(Err(e))
    /\ UNCHANGED <<via, args, after, before, first, last, prev>>

\* hasPreviousPage taken from the presence of an after cursor.
AssembleCursorAware ==
    /\ pc = "window"
    /\ LET w == Window(first, last, loaded.v.val)
       IN  result' = Some(IF w.ok
                          THEN Ok([w.val EXCEPT !.page_info.has_previous_page = after.some])
                          ELSE w)
    /\ pc' = "done"
    /\ UNCHANGED <<via, args, after, before, first, last, calls, loaded, prev>>

\* lines 88-125
Assemble ==
    /\ pc = "window"
    /\ result' = Some(Window(first, last, loaded.v.val))
    /\ pc' = "done"
    /\ UNCHANGED <<via, args, after, before, first, last, calls, loaded, prev>>

\* A caller invokes RelayConnection::empty().
Empty ==
    /\ pc = "idle"
    /\ via' = "empty"
    /\ result' = Some(Ok(empty))
    /\ pc' = "done"
    /\ UNCHANGED <<args, after, before, first, last, calls, loaded, prev>>

\* The caller consumes the result; the next request starts afresh.
Return ==
    /\ pc = "done"
    /\ pc' = "idle"
    /\ via' = "none"
    /\ args' = NoArgs
    /\ after' = None
    /\ before' = None
    /\ first' = None
    /\ last' = None
    /\ calls' = <<>>
    /\ loaded' = None
    /\ result' = None
    /\ UNCHANGED prev

Next ==
    \/ Call
    \/ ParseAfter
    \/ ParseBefore
    \/ CheckFirst
    \/ CheckLast
    \/ Load
    \/ Assemble
    \/ Empty
    \/ Return

Spec == Init /\ [][Next]_vars

\* ------------------------------------------------------- a pair of runs
\* A finished, successful run is kept so that a second run with the same
\* first and last can be compared with it.
Remember ==
    /\ pc = "done"
    /\ via = "new"
    /\ prev = None
    /\ result.v.ok
    /\ Len(loaded.v.val) <= PairMaxLen
    /\ prev' = Some([first |-> first, last |-> last, after |-> after,
                     loaded |-> loaded.v.val, conn |-> result.v.val])
    /\ pc' = "idle"
    /\ via' = "none"
    /\ args' = NoArgs
    /\ after' = None
    /\ before' = None
    /\ first' = None
    /\ last' = None
    /\ calls' = <<>>
    /\ loaded' = None
    /\ result' = None

\* The second run: RelayConnection::new with the first and last of the run
\* that was kept, and any after and before.
CallAgain ==
    /\ pc = "idle"
    /\ prev # None
    /\ \E a \in CursorInputs, b \in CursorInputs :
          args' = [first |-> prev.v.first, after |-> a, last |-> prev.v.last, before |-> b]
    /\ pc' = "parse_after"
    /\ via' = "new"
    /\ UNCHANGED <<after, before, first, last, calls, loaded, result, prev>>

NextPair ==
    \/ Next
    \/ Remember
    \/ CallAgain

SpecPair == Init /\ [][NextPair]_vars

\* ------------------------------------------------------------ properties
\* new has returned.
Returned == pc = "done" /\ via = "new"
\* new has returned a connection built from what the loader returned.
Built == Returned /\ loaded.some /\ loaded.v.ok
Cands == loaded.v.val
N == Len(Cands)
Conn == result.v.val
EdgeNodes(c) == [i \in 1..Len(c.edges) |-> c.edges[i].node]

\* C1: with first = f >= 0 and no last, the edges are the first min(N, f)
\* candidates in loader order, hasNextPage = (N > f), hasPreviousPage is
\* false (so first = 0 gives an empty window with hasNextPage = (N > 0)).
C1_FirstOnly ==
    (Built /\ args.first.some /\ args.first.v >= 0 /\ ~args.last.some) =>
        /\ result.v.ok
        /\ EdgeNodes(Conn) = SubSeq(Cands, 1, Min(N, args.first.v))
        /\ Conn.page_info.has_next_page = (N > args.first.v)
        /\ Conn.page_info.has_previous_page = FALSE

C1_Witness ==
    /\ Built /\ args.first = Some(2) /\ ~args.last.some
    /\ N = 3 /\ result.v.ok
    /\ Len(Conn.edges) = 2 /\ Conn.page_info.has_next_page

\* C2: with last = l >= 0 and no first, the edges are the trailing min(N, l)
\* candidates in loader order, hasPreviousPage = (N > l), hasNextPage is
\* false.
C2_LastOnly ==
    (Built /\ args.last.some /\ args.last.v >= 0 /\ ~args.first.some) =>
        /\ result.v.ok
        /\ EdgeNodes(Conn) = SubSeq(Cands, N - Min(N, args.last.v) + 1, N)
        /\ Conn.page_info.has_previous_page = (N > args.last.v)
        /\ Conn.page_info.has_next_page = FALSE

C2_Witness ==
    /\ Built /\ args.last = Some(1) /\ ~args.first.some
    /\ N = 3 /\ result.v.ok
    /\ Len(Conn.edges) = 1 /\ Conn.edges[1].node = Cands[3]
    /\ Cands[3] # Cands[1]
    /\ Conn.page_info.has_previous_page

\* C3: with first = f and last = l, the edges are the candidates at indices
\* [skipCount, takeCount), takeCount = min(N, f), skipCount =
\* max(0, takeCount - l), i.e. the trailing min(l, min(N, f)) candidates of
\* the front-f slice; hasPreviousPage = (N > l) and hasNextPage = (N > f).
C3_Both ==
    (Built /\ args.first.some /\ args.first.v >= 0
           /\ args.last.some /\ args.last.v >= 0) =>
        LET takeCount == Min(N, args.first.v)
            skipCount == Max(0, takeCount - args.last.v)
        IN  /\ result.v.ok
            /\ EdgeNodes(Conn) = SubSeq(Cands, skipCount + 1, takeCount)
            /\ Len(Conn.edges) = Min(args.last.v, Min(N, args.first.v))
            /\ Conn.page_info.has_previous_page = (N > args.last.v)
            /\ Conn.page_info.has_next_page = (N > args.first.v)

C3_Witness ==
    /\ Built /\ args.first = Some(2) /\ args.last = Some(1)
    /\ N = 3 /\ result.v.ok
    /\ Len(Conn.edges) = 1 /\ Conn.edges[1].node = Cands[2]
    /\ Cands[2] # Cands[1] /\ Cands[2] # Cands[3]
    /\ Conn.page_info.has_previous_page /\ Conn.page_info.has_next_page

\* C4: in every connection returned by new or empty, startCursor and
\* endCursor are None exactly when there are no edges; otherwise they are
\* the cursor strings of the first and of the last edge, and every edge's
\* cursor string is the string rendering of its own node's cursor.
C4_Cursors ==
    (pc = "done" /\ result.v.ok) =>
        LET e == Conn.edges
            pi == Conn.page_info
        IN  /\ (Len(e) = 0) <=> (pi.start_cursor = None)
            /\ (Len(e) = 0) <=> (pi.end_cursor = None)
            /\ Len(e) > 0 => /\ pi.start_cursor = Some(e[1].cursor)
                             /\ pi.end_cursor = Some(e[Len(e)].cursor)
            /\ \A i \in 1..Len(e) :
                  /\ e[i].cursor = CursorToString(cursor(e[i].node))
                  /\ ParseCursor(e[i].cursor) = Ok(cursor(e[i].node))

C4_Witness ==
    /\ Returned /\ result.v.ok
    /\ Len(Conn.edges) = 2
    /\ Conn.page_info.start_cursor = Some(<<"7">>)
    /\ Conn.page_info.end_cursor = Some(<<"1", "2">>)

\* The arguments new was called with, judged on their own.
BadInt(o) == o.some /\ o.v < 0
BadCursor(o) == o.some /\ ~ParseCursor(o.v).ok
ArgsInvalid ==
    \/ BadInt(args.first)
    \/ BadInt(args.last)
    \/ BadCursor(args.after)
    \/ BadCursor(args.before)

\* C5: if any argument of new is invalid (first < 0, last < 0, an after or
\* before string that does not parse), the request ends in an error, no
\* connection is produced and the loader is never invoked, whatever the
\* other arguments are.
C5_InvalidArgs ==
    (via = "new" /\ ArgsInvalid) =>
        /\ calls = <<>>
        /\ loaded = None
        /\ pc \in {"parse_after", "parse_before", "check_first", "check_last", "done"}
        /\ pc = "done" => (result.some /\ ~result.v.ok)

C5_Witness ==
    /\ Returned
    /\ BadInt(args.first) /\ BadCursor(args.before) /\ ~BadCursor(args.after)
    /\ args.after.some
    /\ result = Some(Err("invalid digit found in string"))
    /\ calls = <<>>

\* C6: with four valid arguments the loader is invoked exactly once, after
\* validation and cursor decoding, with the decoded cursors; if it fails,
\* new returns that failure unchanged, produces no connection and does not
\* invoke the loader again.
C6_LoaderOnce ==
    /\ Len(calls) <= 1
    /\ calls # <<>> =>
          /\ via = "new" /\ ~ArgsInvalid
          /\ pc \in {"window", "done"}
          /\ calls[1].after = ParseOpt(args.after).val
          /\ calls[1].before = ParseOpt(args.before).val
          /\ first = args.first /\ last = args.last
    /\ (Returned /\ ~ArgsInvalid) =>
          /\ Len(calls) = 1
          /\ loaded.some
          /\ ~loaded.v.ok => result = Some(Err(loaded.v.err))

C6_Witness ==
    /\ Returned /\ ~ArgsInvalid
    /\ args.after.some /\ args.first.some
    /\ Len(calls) = 1
    /\ loaded = Some(Err("row decode failed"))
    /\ result = Some(Err("row decode failed"))

\* C7: empty returns a connection with no edges, both flags false and both
\* cursors None, without invoking a loader; new returns the same connection,
\* field by field, whenever the loader returns an empty Vec, whatever the
\* valid first, after, last and before are.
C7_Empty ==
    /\ (pc = "done" /\ via = "empty") =>
          /\ result.v.ok
          /\ Conn.edges = <<>>
          /\ Conn.page_info.has_previous_page = FALSE
          /\ Conn.page_info.has_next_page = FALSE
          /\ Conn.page_info.start_cursor = None
          /\ Conn.page_info.end_cursor = None
          /\ calls = <<>>
    /\ (Built /\ N = 0) =>
          /\ result.v.ok
          /\ Conn.edges = empty.edges
          /\ Conn.page_info.has_previous_page = empty.page_info.has_previous_page
          /\ Conn.page_info.has_next_page = empty.page_info.has_next_page
          /\ Conn.page_info.start_cursor = empty.page_info.start_cursor
          /\ Conn.page_info.end_cursor = empty.page_info.end_cursor

C7_Witness ==
    /\ Built /\ N = 0
    /\ args.first = Some(0) /\ args.last = Some(0)
    /\ args.after.some /\ args.before.some
    /\ result = Some(Ok(empty))

\* C8: two runs of new with the same valid first and last and the same
\* returned candidates give the same edges and page info, whatever their
\* after and before cursors were and however the length of the returned Vec
\* compares with the limit hint.
C8_SameWindow ==
    (prev.some /\ Built /\ result.v.ok
       /\ first = prev.v.first /\ last = prev.v.last
       /\ Cands = prev.v.loaded) =>
        Conn = prev.v.conn

C8_Witness ==
    /\ prev.some /\ Built /\ result.v.ok
    /\ first = prev.v.first /\ last = prev.v.last
    /\ Cands = prev.v.loaded
    /\ after # prev.v.after
    /\ first = Some(0) /\ N = 2
    /\ Conn = prev.v.conn

\* first + 1 as a number in base 2^16, for 0 <= f <= i32::MAX.
Succ64(f) ==
    LET low == (f % Limb) + 1
    IN  <<0, 0, (f \div Limb) + (low \div Limb), low % Limb>>

\* C9: the limit hint given to the loader is first + 1 when first is
\* supplied and absent otherwise, whatever last is; for every valid first
\* up to 2^31 - 1 it is the mathematical first + 1, with no wrap-around.
C9_LimitHint ==
    \A i \in 1..Len(calls) :
        IF args.first.some
        THEN /\ calls[i].limit = Some(Succ64(args.first.v))
             /\ Less64(I64FromI32(args.first.v), calls[i].limit.v)
        ELSE calls[i].limit = None

C9_Witness ==
    /\ Len(calls) = 1
    /\ args.first = Some(I32Max) /\ args.last.some
    /\ calls[1].limit = Some(<<0, 0, HalfLimb, 0>>)

\* C10: the window is a contiguous run of the candidates no longer than
\* first and no longer than last when those are supplied; if it leaves out
\* a leading candidate hasPreviousPage is true, and if it leaves out a
\* trailing candidate hasNextPage is true.
C10_FlagsCoverDrops ==
    (Built /\ ~ArgsInvalid) =>
        LET takeCount == Min(N, IF args.first.some THEN args.first.v ELSE N)
            skipCount == Max(0, takeCount - (IF args.last.some THEN args.last.v ELSE N))
        IN  /\ result.v.ok
            /\ skipCount <= takeCount
            /\ EdgeNodes(Conn) = SubSeq(Cands, skipCount + 1, takeCount)
            /\ skipCount > 0 => Conn.page_info.has_previous_page
            /\ takeCount < N => Conn.page_info.has_next_page
            /\ args.first.some => Len(Conn.edges) <= args.first.v
            /\ args.last.some => Len(Conn.edges) <= args.last.v

C10_Witness ==
    /\ Built /\ ~ArgsInvalid /\ result.v.ok
    /\ args.first = Some(2) /\ args.last = Some(1) /\ N = 3
    /\ Len(Conn.edges) = 1
    /\ Conn.page_info.has_previous_page /\ Conn.page_info.has_next_page

====
